---- MODULE Spec2Model ----
(***************************************************************************)
(* Model of server.js (RepFinder): the officeholder index built by         *)
(* loadIndex, the /api/rep request handler with its two external fetches,  *)
(* and the /admin/reload handler.                                          *)
(*                                                                         *)
(* JavaScript strings that the code inspects character by character        *)
(* (district values, field names, keys) are sequences of one-character     *)
(* strings.  JavaScript values of varying type are tagged records.         *)
(***************************************************************************)
EXTENDS Integers, Sequences, FiniteSets, TLC

\* ------------------------------------------------------------------------
\* Text primitives (the String / RegExp operations the code uses)
\* ------------------------------------------------------------------------

DigitChars == <<"0", "1", "2", "3", "4", "5", "6", "7", "8", "9">>

UpperChars == <<"A", "B", "C", "D", "E", "F", "G", "H", "I", "J", "K", "L", "M",
                "N", "O", "P", "Q", "R", "S", "T", "U", "V", "W", "X", "Y", "Z">>

LowerChars == <<"a", "b", "c", "d", "e", "f", "g", "h", "i", "j", "k", "l", "m",
                "n", "o", "p", "q", "r", "s", "t", "u", "v", "w", "x", "y", "z">>

Digits == {DigitChars[i] : i \in 1..10}

IsDigit(c) == c \in Digits

DigitValues == [c \in Digits |-> (CHOOSE i \in 1..10 : DigitChars[i] = c) - 1]

DigitVal(c) == DigitValues[c]

LowerOf == [c \in {UpperChars[i] : i \in 1..26} |->
                LowerChars[CHOOSE i \in 1..26 : UpperChars[i] = c]]

\* String.prototype.toLowerCase, one character
LowerChar(c) == IF c \in DOMAIN LowerOf THEN LowerOf[c] ELSE c

ToLowerCase(s) == [i \in 1..Len(s) |-> LowerChar(s[i])]

\* \s of the regular expressions, for the characters the inputs use
IsSpace(c) == c = " "

\* s.slice(i-1, j) with 1-based inclusive bounds
Slice(s, i, j) == [n \in 1..(j - i + 1) |-> s[i + n - 1]]

\* sub occurs in s starting at position i
OccursAt(s, sub, i) ==
    /\ i >= 1
    /\ i + Len(sub) - 1 <= Len(s)
    /\ \A n \in 1..Len(sub) : s[i + n - 1] = sub[n]

\* String.prototype.includes
Includes(s, sub) == \E i \in 1..(Len(s) + 1) : OccursAt(s, sub, i)

\* value of a run of decimal digits: parseInt(run, 10)
RECURSIVE DigitsValue(_)
DigitsValue(ds) ==
    IF ds = <<>> THEN 0
    ELSE 10 * DigitsValue(Slice(ds, 1, Len(ds) - 1)) + DigitVal(ds[Len(ds)])

\* String(n) for a natural number
RECURSIVE NatToString(_)
NatToString(n) ==
    IF n < 10 THEN <<DigitChars[n + 1]>>
    ELSE NatToString(n \div 10) \o <<DigitChars[(n % 10) + 1]>>

\* String(n) for an integer
NumberToString(n) == IF n < 0 THEN <<"-">> \o NatToString(0 - n) ELSE NatToString(n)

\* length of the maximal run of digits of s that starts at position i
RECURSIVE DigitRunLen(_, _)
DigitRunLen(s, i) ==
    IF i > Len(s) \/ ~IsDigit(s[i]) THEN 0 ELSE 1 + DigitRunLen(s, i + 1)

\* s.match(/\d+/): the leftmost maximal digit run, <<>> when there is none
MatchDigits(s) ==
    IF \E i \in 1..Len(s) : IsDigit(s[i])
    THEN LET i == CHOOSE p \in 1..Len(s) :
                      IsDigit(s[p]) /\ \A q \in 1..(p - 1) : ~IsDigit(s[q])
         IN  Slice(s, i, i + DigitRunLen(s, i) - 1)
    ELSE <<>>

\* /at[-\s]*large/i.test(s)
AtLargeTest(s) ==
    LET l == ToLowerCase(s)
    IN  \E i \in 1..Len(l) : \E j \in (i + 2)..Len(l) :
            /\ OccursAt(l, <<"a", "t">>, i)
            /\ \A n \in (i + 2)..(j - 1) : l[n] = "-" \/ IsSpace(l[n])
            /\ OccursAt(l, <<"l", "a", "r", "g", "e">>, j)

\* /district/i.test(s)
DistrictTest(s) ==
    Includes(ToLowerCase(s), <<"d", "i", "s", "t", "r", "i", "c", "t">>)

\* s.match(/(\d+)\s*$/): the digit run that ends s, trailing white space
\* ignored; <<>> when s does not end that way
RECURSIVE StripTrailingSpace(_)
StripTrailingSpace(s) ==
    IF s # <<>> /\ IsSpace(s[Len(s)])
    THEN StripTrailingSpace(Slice(s, 1, Len(s) - 1))
    ELSE s

RECURSIVE TrailingDigitStart(_, _)
TrailingDigitStart(s, i) ==
    IF i >= 1 /\ IsDigit(s[i]) THEN TrailingDigitStart(s, i - 1) ELSE i + 1

MatchTrailingDigits(s) ==
    LET t == StripTrailingSpace(s)
    IN  Slice(t, TrailingDigitStart(t, Len(t)), Len(t))

\* parseInt(s, 10) of a string: leading white space, an optional sign, then
\* the longest digit prefix; NaN when no digit follows
RECURSIVE SkipSpace(_, _)
SkipSpace(s, i) == IF i <= Len(s) /\ IsSpace(s[i]) THEN SkipSpace(s, i + 1) ELSE i

ParseInt(s) ==
    LET i == SkipSpace(s, 1)
        signed == i <= Len(s) /\ s[i] \in {"-", "+"}
        j == IF signed THEN i + 1 ELSE i
        n == DigitRunLen(s, j)
        v == DigitsValue(Slice(s, j, j + n - 1))
    IN  IF n = 0 THEN [nan |-> TRUE, n |-> 0]
        ELSE [nan |-> FALSE, n |-> IF signed /\ s[i] = "-" THEN 0 - v ELSE v]

\* String(parseInt(s, 10))
ParseIntToString(s) ==
    LET r == ParseInt(s)
    IN  IF r.nan THEN <<"N", "a", "N">> ELSE NumberToString(r.n)

\* ------------------------------------------------------------------------
\* JavaScript values
\* ------------------------------------------------------------------------

\* undefined / null
Undef == [k |-> "undef", n |-> 0, s |-> <<>>]

\* a number
Num(n) == [k |-> "num", n |-> n, s |-> <<>>]

\* a string
Str(s) == [k |-> "str", n |-> 0, s |-> s]

\* String(v), also what a template literal renders
StringOf(v) ==
    CASE v.k = "str" -> v.s
      [] v.k = "num" -> NumberToString(v.n)
      [] OTHER -> <<"u", "n", "d", "e", "f", "i", "n", "e", "d">>

\* the truthiness tests `v ? .. : ..`, `!v`, `v || ..`
Truthy(v) ==
    CASE v.k = "str" -> v.s # <<>>
      [] v.k = "num" -> v.n # 0
      [] OTHER -> FALSE

\* A roster date field: absent, a date (its epoch value), or a value that
\* `new Date` cannot parse
NoDate == [k |-> "absent", ms |-> 0]

DateAt(ms) == [k |-> "date", ms |-> ms]

BadDate == [k |-> "invalid", ms |-> 0]

\* ------------------------------------------------------------------------
\* loadIndex
\* ------------------------------------------------------------------------

\* filter(Boolean).join(' ') over name parts; "" is an absent part
RECURSIVE JoinParts(_)
JoinParts(parts) ==
    IF parts = <<>> THEN ""
    ELSE IF Head(parts) = "" THEN JoinParts(Tail(parts))
    ELSE IF JoinParts(Tail(parts)) = "" THEN Head(parts)
    ELSE Head(parts) \o " " \o JoinParts(Tail(parts))

\* normalizeName(person).  person.name is an object (first/middle/last), or
\* the person has flat first_name/last_name, or a name / full_name string
normalizeName(person) ==
    IF person.isNull THEN ""
    ELSE IF person.nameKind = "object"
    THEN JoinParts(<<person.first, person.middle, person.last>>)
    ELSE IF person.nameKind = "flat" /\ (person.first # "" \/ person.last # "")
    THEN JoinParts(<<person.first, person.last>>)
    ELSE person.full

\* lines 44-50: the district part of the key, from the raw t.district
NormalizeDistrict(raw) ==
    LET m == IF raw.k = "str" THEN MatchDigits(raw.s) ELSE <<>>
        districtRaw == IF raw.k = "str" /\ m # <<>>
                       THEN Str(NatToString(DigitsValue(m)))
                       ELSE raw
        district == IF Truthy(districtRaw) THEN StringOf(districtRaw) ELSE <<>>
    IN  IF district = <<>> \/ district = <<"0">> \/ AtLargeTest(StringOf(districtRaw))
        THEN <<"1">>
        ELSE district

\* a variant of isCurrent with end > today
IsCurrentStrictEnd(t, today) ==
    /\ \/ t.start.k = "absent"
       \/ t.start.k = "date" /\ t.start.ms <= today
    /\ \/ t.end.k = "absent"
       \/ t.end.k = "date" /\ t.end.ms > today

\* line 54: isCurrent.  A comparison with an invalid Date is false
IsCurrent(t, today) ==
    /\ \/ t.start.k = "absent"
       \/ t.start.k = "date" /\ t.start.ms <= today
    /\ \/ t.end.k = "absent"
       \/ t.end.k = "date" /\ t.end.ms >= today

\* line 56: start ? start.getTime() : 0  (NaN for an invalid Date)
StartTime(t) ==
    CASE t.start.k = "absent" -> [nan |-> FALSE, n |-> 0]
      [] t.start.k = "date" -> [nan |-> FALSE, n |-> t.start.ms]
      [] OTHER -> [nan |-> TRUE, n |-> 0]

\* line 55: `${state}-${district}`
TermKey(t) == StringOf(t.state) \o <<"-">> \o NormalizeDistrict(t.district)

\* lines 42-58 for one term
Candidate(person, t, today) ==
    [person |-> person, term |-> t, key |-> TermKey(t),
     isCurrent |-> IsCurrent(t, today), start |-> StartTime(t)]

\* lines 41-59 for one person: the type 'rep' terms, in order
RECURSIVE TermCandidates(_, _, _)
TermCandidates(person, terms, today) ==
    IF terms = <<>> THEN <<>>
    ELSE (IF Head(terms).type = "rep"
          THEN <<Candidate(person, Head(terms), today)>>
          ELSE <<>>) \o TermCandidates(person, Tail(terms), today)

\* lines 40-60: every candidate in roster iteration order
RECURSIVE Candidates(_, _)
Candidates(docs, today) ==
    IF docs = <<>> THEN <<>>
    ELSE TermCandidates(Head(docs), Head(docs).terms, today)
         \o Candidates(Tail(docs), today)

\* map[key]: the candidates of one key, in push order
KeyCandidates(cands, key) == SelectSeq(cands, LAMBDA c : c.key = key)

\* line 66: arr.reduce((best, cur) => cur.start > (best.start||0) ? cur : best, arr[0])
RECURSIVE Reduce(_, _, _)
Reduce(arr, best, i) ==
    IF i > Len(arr) THEN best
    ELSE LET cur == arr[i]
             bestStart == IF best.start.nan THEN 0 ELSE best.start.n
         IN  Reduce(arr,
                    IF ~cur.start.nan /\ cur.start.n > bestStart THEN cur ELSE best,
                    i + 1)

\* a variant of the selection that ignores currency
ChosenByStartOnly(arr) == Reduce(arr, arr[1], 1)

\* lines 65-66: the first current candidate, else the reduce
Chosen(arr) ==
    IF \E i \in 1..Len(arr) : arr[i].isCurrent
    THEN arr[CHOOSE i \in 1..Len(arr) :
                 arr[i].isCurrent /\ \A j \in 1..(i - 1) : ~arr[j].isCurrent]
    ELSE Reduce(arr, arr[1], 1)

\* a || b || '' over strings, "" being absent
OrElse(a, b) == IF a # "" THEN a ELSE b

\* lines 67-76: the entry stored for a chosen candidate
Entry(c) ==
    [name |-> normalizeName(c.person),
     party |-> OrElse(c.term.party, c.person.party),
     phone |-> OrElse(c.term.phone, c.person.phone),
     url |-> OrElse(c.term.url, c.person.url),
     bioguide |-> c.person.bioguide,
     raw_person |-> c.person,
     raw_term |-> c.term]

\* lines 37-77: outIndex for a parsed roster
OutIndex(docs, today) ==
    LET cands == Candidates(docs, today)
    IN  [key \in {cands[i].key : i \in 1..Len(cands)} |->
             Entry(Chosen(KeyCandidates(cands, key)))]

\* ------------------------------------------------------------------------
\* /api/rep: district extraction and resolution
\* ------------------------------------------------------------------------

\* FIPS_TO_STATE: each row is the two digits of the code, then the two
\* letters of the state
FIPS_TO_STATE == <<
    <<"0", "1", "A", "L">>, <<"0", "2", "A", "K">>, <<"0", "4", "A", "Z">>,
    <<"0", "5", "A", "R">>, <<"0", "6", "C", "A">>, <<"0", "8", "C", "O">>,
    <<"0", "9", "C", "T">>, <<"1", "0", "D", "E">>, <<"1", "1", "D", "C">>,
    <<"1", "2", "F", "L">>, <<"1", "3", "G", "A">>, <<"1", "5", "H", "I">>,
    <<"1", "6", "I", "D">>, <<"1", "7", "I", "L">>, <<"1", "8", "I", "N">>,
    <<"1", "9", "I", "A">>, <<"2", "0", "K", "S">>, <<"2", "1", "K", "Y">>,
    <<"2", "2", "L", "A">>, <<"2", "3", "M", "E">>, <<"2", "4", "M", "D">>,
    <<"2", "5", "M", "A">>, <<"2", "6", "M", "I">>, <<"2", "7", "M", "N">>,
    <<"2", "8", "M", "S">>, <<"2", "9", "M", "O">>, <<"3", "0", "M", "T">>,
    <<"3", "1", "N", "E">>, <<"3", "2", "N", "V">>, <<"3", "3", "N", "H">>,
    <<"3", "4", "N", "J">>, <<"3", "5", "N", "M">>, <<"3", "6", "N", "Y">>,
    <<"3", "7", "N", "C">>, <<"3", "8", "N", "D">>, <<"3", "9", "O", "H">>,
    <<"4", "0", "O", "K">>, <<"4", "1", "O", "R">>, <<"4", "2", "P", "A">>,
    <<"4", "4", "R", "I">>, <<"4", "5", "S", "C">>, <<"4", "6", "S", "D">>,
    <<"4", "7", "T", "N">>, <<"4", "8", "T", "X">>, <<"4", "9", "U", "T">>,
    <<"5", "0", "V", "T">>, <<"5", "1", "V", "A">>, <<"5", "3", "W", "A">>,
    <<"5", "4", "W", "V">>, <<"5", "5", "W", "I">>, <<"5", "6", "W", "Y">>,
    <<"7", "2", "P", "R">>
>>

\* FIPS_TO_STATE[fips] || null, <<>> being null
StateOfFips(fips) ==
    IF \E i \in 1..Len(FIPS_TO_STATE) :
           <<FIPS_TO_STATE[i][1], FIPS_TO_STATE[i][2]>> = fips
    THEN LET i == CHOOSE n \in 1..Len(FIPS_TO_STATE) :
                      <<FIPS_TO_STATE[n][1], FIPS_TO_STATE[n][2]>> = fips
         IN  <<FIPS_TO_STATE[i][3], FIPS_TO_STATE[i][4]>>
    ELSE <<>>

\* obj[name] of an object given as its fields in Object.keys order
Get(obj, name) ==
    IF \E i \in 1..Len(obj) : obj[i].k = name
    THEN obj[CHOOSE i \in 1..Len(obj) : obj[i].k = name].v
    ELSE Undef

\* /^CD\d{1,3}$/i.test(k)
CDFieldTest(k) ==
    /\ Len(k) \in 3..5
    /\ LowerChar(k[1]) = "c"
    /\ LowerChar(k[2]) = "d"
    /\ \A i \in 3..Len(k) : IsDigit(k[i])

\* k.toLowerCase().includes('name')
NameFieldTest(k) == Includes(ToLowerCase(k), <<"n", "a", "m", "e">>)

\* lines 305-311: the loop over the fields of one district object, from
\* field i on; the district number of the first field that yields one,
\* <<>> (null) when the loop ends without a break
RECURSIVE FieldLoop(_, _)
FieldLoop(cd, i) ==
    IF i > Len(cd) THEN <<>>
    ELSE LET k == cd[i].k
             v == cd[i].v
             m == MatchTrailingDigits(StringOf(v))
         IN  IF CDFieldTest(k) /\ Truthy(v)
             THEN ParseIntToString(StringOf(v))
             ELSE IF /\ NameFieldTest(k)
                     /\ Truthy(v)
                     /\ DistrictTest(StringOf(v))
                     /\ m # <<>>
             THEN NatToString(DigitsValue(m))
             ELSE FieldLoop(cd, i + 1)

\* lines 304-315: districtNum of one district object
DistrictNum(cd) ==
    LET byLoop == FieldLoop(cd, 1)
        name == Get(cd, <<"N", "A", "M", "E">>)
        m == MatchTrailingDigits(StringOf(name))
    IN  IF byLoop = <<>> /\ Truthy(name) /\ m # <<>>
        THEN NatToString(DigitsValue(m))
        ELSE byLoop

\* String.prototype.padStart(2, '0')
PadStart2(s) ==
    CASE Len(s) = 0 -> <<"0", "0">>
      [] Len(s) = 1 -> <<"0">> \o s
      [] OTHER -> s

\* lines 316-318: the state of one district object, <<>> being null
StateOf(cd) ==
    LET st == Get(cd, <<"S", "T", "A", "T", "E">>)
        fp == Get(cd, <<"S", "T", "A", "T", "E", "F", "P">>)
        geoid == Get(cd, <<"G", "E", "O", "I", "D">>)
        geo2 == LET g == StringOf(geoid)
                IN  Str(Slice(g, 1, IF Len(g) < 2 THEN Len(g) ELSE 2))
        stateFipsRaw == IF Truthy(st) THEN st
                        ELSE IF Truthy(fp) THEN fp
                        ELSE IF Truthy(geoid) THEN geo2
                        ELSE Undef
    IN  IF Truthy(stateFipsRaw)
        THEN StateOfFips(PadStart2(StringOf(stateFipsRaw)))
        ELSE <<>>

\* lines 303-322 for one district object: the key it adds, <<>> when the
\* object is skipped
KeyOf(cd) ==
    LET d == DistrictNum(cd)
        state == StateOf(cd)
    IN  IF state = <<>> THEN <<>>
        ELSE state \o <<"-">> \o (IF d = <<>> \/ d = <<"0">> THEN <<"1">> ELSE d)

\* Set.prototype.add on a set kept in insertion order
SetAdd(keys, k) ==
    IF \E i \in 1..Len(keys) : keys[i] = k THEN keys ELSE Append(keys, k)

\* lines 302-322: foundKeys in insertion order
RECURSIVE FoundKeys(_, _)
FoundKeys(cdArray, keys) ==
    IF cdArray = <<>> THEN keys
    ELSE LET k == KeyOf(Head(cdArray))
         IN  FoundKeys(Tail(cdArray), IF k = <<>> THEN keys ELSE SetAdd(keys, k))

\* String.prototype.split('-')
RECURSIVE SplitDash(_, _, _)
SplitDash(s, i, cur) ==
    IF i > Len(s) THEN <<cur>>
    ELSE IF s[i] = "-" THEN <<cur>> \o SplitDash(s, i + 1, <<>>)
    ELSE SplitDash(s, i + 1, Append(cur, s[i]))

\* lines 329-352: the result element of one key.  undefined is Undef
RepOf(k, index) ==
    LET parts == SplitDash(k, 1, <<>>)
        st == Str(parts[1])
        dnum == IF Len(parts) >= 2 THEN Str(parts[2]) ELSE Undef
    IN  IF k \in DOMAIN index
        THEN [state |-> st, district |-> dnum, missing |-> FALSE,
              name |-> index[k].name, party |-> index[k].party,
              phone |-> index[k].phone, url |-> index[k].url,
              bioguide |-> index[k].bioguide,
              photo |-> IF index[k].bioguide # ""
                        THEN "https://bioguide.congress.gov/photo/"
                             \o index[k].bioguide \o ".jpg"
                        ELSE "",
              raw_person |-> index[k].raw_person,
              raw_term |-> index[k].raw_term]
        ELSE [state |-> st, district |-> dnum, missing |-> TRUE]

\* lines 327-353: reps, one element per key of foundKeys
Representatives(keys, index) == [i \in 1..Len(keys) |-> RepOf(keys[i], index)]

\* lines 287-296: the Congressional Districts array of the geographies
\* object, given as its fields in Object.keys order; <<>> when none
CongressTest(k) == Includes(ToLowerCase(k), <<"c", "o", "n", "g", "r", "e", "s", "s">>)

FallbackNames == <<
    <<"C", "o", "n", "g", "r", "e", "s", "s", "i", "o", "n", "a", "l", " ", "D", "i", "s", "t", "r", "i", "c", "t", "s">>,
    <<"C", "o", "n", "g", "r", "e", "s", "s", "i", "o", "n", "a", "l", " ", "D", "i", "s", "t", "r", "i", "c", "t">>,
    <<"C", "o", "n", "g", "r", "e", "s", "s", "i", "o", "n", "a", "l", "D", "i", "s", "t", "r", "i", "c", "t", "s">>,
    <<"C", "o", "n", "g", "r", "e", "s", "s", "i", "o", "n", "a", "l", " ", "d", "i", "s", "t", "r", "i", "c", "t">>
>>

\* line 295: geogs[a] || geogs[b] || ..; an array, even an empty one, is
\* truthy; <<>> stands for undefined
RECURSIVE Fallback(_, _)
Fallback(geogs, i) ==
    IF i > Len(FallbackNames) THEN <<>>
    ELSE IF \E n \in 1..Len(geogs) : geogs[n].k = FallbackNames[i]
    THEN Get(geogs, FallbackNames[i])
    ELSE Fallback(geogs, i + 1)

CdArray(geogs) ==
    LET first == IF \E i \in 1..Len(geogs) : CongressTest(geogs[i].k)
                 THEN geogs[CHOOSE i \in 1..Len(geogs) :
                                /\ CongressTest(geogs[i].k)
                                /\ \A j \in 1..(i - 1) : ~CongressTest(geogs[j].k)].v
                 ELSE <<>>
    IN  IF first = <<>> THEN Fallback(geogs, 1) ELSE first

\* /^\d{5}$/.test(zip)
ZipTest(zip) == Len(zip) = 5 /\ \A i \in 1..5 : IsDigit(zip[i])

\* String.prototype.trim
RECURSIVE TrimStart(_)
TrimStart(s) == IF s # <<>> /\ IsSpace(s[1]) THEN TrimStart(Tail(s)) ELSE s

Trim(s) == StripTrailingSpace(TrimStart(s))

\* ------------------------------------------------------------------------
\* Bounds and inputs
\* ------------------------------------------------------------------------

\* the clock runs from 1 to MaxTime
MaxTime == 2

\* number of /api/rep requests in flight
NumReqs == 1

\* longest roster the index builder is exercised on
MaxPersons == 3

ReqIds == 1..NumReqs

CA == Str(<<"C", "A">>)

WY == Str(<<"W", "Y">>)

Term(type, state, district, start, end, party) ==
    [type |-> type, state |-> state, district |-> district,
     start |-> start, end |-> end, party |-> party, phone |-> "", url |-> ""]

Person(kind, first, last, full, bioguide, terms) ==
    [isNull |-> FALSE, nameKind |-> kind, first |-> first, middle |-> "",
     last |-> last, full |-> full, party |-> "I", phone |-> "555", url |-> "",
     bioguide |-> bioguide, terms |-> terms]

\* a null entry of the roster sequence
NullPerson ==
    [isNull |-> TRUE, nameKind |-> "none", first |-> "", middle |-> "",
     last |-> "", full |-> "", party |-> "", phone |-> "", url |-> "",
     bioguide |-> "", terms |-> <<>>]

\* CA-1 at times 1 and 2
Ann == Person("object", "Ann", "Doe", "", "A000001",
              <<Term("rep", CA, Num(1), DateAt(1), DateAt(2), "D")>>)

\* CA-1 at time 1 only: the same start as Ann
Gus == Person("object", "Gus", "Ray", "", "G000007",
              <<Term("rep", CA, Num(1), DateAt(1), DateAt(1), "D")>>)

\* elected but not yet seated: CA-1 from 9 on, written "01"; and a Senate
\* term, which is never indexed
Fay == Person("flat", "Fay", "Roe", "", "F000002",
              <<Term("sen", CA, Undef, DateAt(1), NoDate, "R"),
                Term("rep", CA, Str(<<"0", "1">>), DateAt(9), NoDate, "R")>>)

\* CA-1 three times, never current: a start before the epoch, no start at
\* all, and a start at the epoch
Cy == Person("string", "", "", "Cy Poe", "",
             <<Term("rep", CA, Num(1), DateAt(-1), DateAt(0), "D"),
               Term("rep", CA, Undef, NoDate, DateAt(0), ""),
               Term("rep", CA, Num(1), DateAt(0), DateAt(0), "D")>>)

\* CA-1 with a start date that does not parse
Di == Person("object", "Di", "Lee", "", "D000004",
             <<Term("rep", CA, Num(1), BadDate, NoDate, "R")>>)

\* WY at large: district 0 until time 1, then "At Large" from 2 on
Ed == Person("flat", "Ed", "", "", "E000005",
             <<Term("rep", WY, Num(0), DateAt(0), DateAt(1), "R"),
               Term("rep", WY, Str(<<"A", "t", " ", "L", "a", "r", "g", "e">>),
                    DateAt(2), NoDate, "R")>>)

\* a term without a state, and one whose end date does not parse
Flo == Person("object", "Flo", "Kim", "", "F000006",
              <<Term("rep", Undef, Num(2), DateAt(1), NoDate, "D"),
                Term("rep", WY, Num(1), DateAt(1), BadDate, "D")>>)

\* district values that are neither a positive number nor at large
Hal == Person("object", "Hal", "Ott", "", "H000008",
              <<Term("rep", CA, Str(<<"a", "b", "c">>), DateAt(1), NoDate, "D"),
                Term("rep", CA, Num(-3), DateAt(1), NoDate, "D")>>)

PersonPool == {Ann, Gus, Fay, Cy, Di, Ed, Flo}

\* the roster file: unreadable, not YAML, or a parsed sequence of persons
Unreadable == [k |-> "unreadable", docs |-> <<>>]

BadYaml == [k |-> "badyaml", docs |-> <<>>]

Docs(docs) == [k |-> "docs", docs |-> docs]

\* rosters for the index builder: every sequence of 1..MaxPersons persons
BuildFiles ==
    {Docs(d) : d \in UNION {[1..n -> PersonPool] : n \in 1..MaxPersons}}

\* roster files for the running server
SysFiles ==
    {Docs(<<Ann, Fay>>), Docs(<<Ed, Hal, Cy>>), Docs(<<Ed, NullPerson, Ann>>),
     Unreadable, BadYaml}

\* one field of a JSON object
Field(k, v) == [k |-> k, v |-> v]

fNAME == <<"N", "A", "M", "E">>

fCD119 == <<"C", "D", "1", "1", "9">>

fSTATE == <<"S", "T", "A", "T", "E">>

fSTATEFP == <<"S", "T", "A", "T", "E", "F", "P">>

fGEOID == <<"G", "E", "O", "I", "D">>

fBASENAME == <<"B", "A", "S", "E", "N", "A", "M", "E">>

\* district objects of the Census response
\* NAME alone, state 06
cdName1 == <<Field(fSTATE, Str(<<"0", "6">>)), Field(fNAME, Str(<<"D", "i", "s", "t", "r", "i", "c", "t", " ", "1">>))>>

\* at large: CD119 "00", state from GEOID
cdAtLarge == <<Field(fCD119, Str(<<"0", "0">>)), Field(fGEOID, Str(<<"5", "6", "0", "0">>)),
               Field(fNAME, Str(<<"D", "i", "s", "t", "r", "i", "c", "t", " ", "(", "a", "t", " ", "L", "a", "r", "g", "e", ")">>))>>

\* NAME before CD119, naming different numbers; numeric STATEFP
cdNameThenCd == <<Field(fNAME, Str(<<"D", "i", "s", "t", "r", "i", "c", "t", " ", "2">>)), Field(fCD119, Str(<<"0", "1">>)),
                  Field(fSTATEFP, Num(6))>>

\* CD119 before NAME, naming different numbers
cdCdThenName == <<Field(fCD119, Str(<<"0", "2">>)), Field(fNAME, Str(<<"D", "i", "s", "t", "r", "i", "c", "t", " ", "3">>)),
                  Field(fSTATE, Str(<<"0", "6">>))>>

\* the Census code for "no district defined"
cdUndefined == <<Field(fCD119, Str(<<"Z", "Z">>)), Field(fSTATE, Str(<<"0", "6">>))>>

\* a signed CD value
cdNegative == <<Field(fCD119, Str(<<"-", "5">>)), Field(fSTATE, Str(<<"0", "6">>))>>

\* a FIPS code that is not in the table
cdNoState == <<Field(fSTATE, Str(<<"9", "9">>)), Field(fCD119, Str(<<"0", "1">>))>>

\* only rule (c) applies: NAME without the word "district"
cdPlainName == <<Field(fBASENAME, Str(<<"3">>)), Field(fNAME, Str(<<"A", "r", "e", "a", " ", "3", " ">>)),
                 Field(fSTATE, Str(<<"5", "6">>))>>

\* no rule yields a number
cdNoNumber == <<Field(fNAME, Str(<<"S", "t", "a", "t", "e", "w", "i", "d", "e">>)), Field(fSTATE, Str(<<"5", "6">>))>>

CdArrays ==
    {<<cdName1, cdAtLarge, cdName1>>, <<cdNameThenCd, cdCdThenName>>,
     <<cdUndefined>>, <<cdNegative, cdPlainName>>, <<cdNoState>>,
     <<cdNoNumber, cdNoState>>}

lCongress == <<"1", "1", "9", "t", "h", " ", "C", "o", "n", "g", "r", "e", "s", "s", "i", "o", "n", "a", "l", " ", "D", "i", "s", "t", "r", "i", "c", "t", "s">>

lCounties == <<"C", "o", "u", "n", "t", "i", "e", "s">>

\* the response of the ZIP service (fetch and json(), lines 264-272)
ZipResponse(rejected, ok, badJson, hasPlace, hasLatLon) ==
    [rejected |-> rejected, ok |-> ok, badJson |-> badJson,
     hasPlace |-> hasPlace, hasLatLon |-> hasLatLon]

ZipResponses ==
    {ZipResponse(TRUE, FALSE, FALSE, FALSE, FALSE),
     ZipResponse(FALSE, FALSE, FALSE, FALSE, FALSE),
     ZipResponse(FALSE, TRUE, TRUE, FALSE, FALSE),
     ZipResponse(FALSE, TRUE, FALSE, FALSE, FALSE),
     ZipResponse(FALSE, TRUE, FALSE, TRUE, FALSE),
     ZipResponse(FALSE, TRUE, FALSE, TRUE, TRUE)}

\* the response of the Census service (fetch and json(), lines 280-284);
\* geogs is the geographies object as its fields in Object.keys order
GeoResponse(rejected, ok, badJson, hasGeogs, geogs) ==
    [rejected |-> rejected, ok |-> ok, badJson |-> badJson,
     hasGeogs |-> hasGeogs, geogs |-> geogs]

GeoResponses ==
    {GeoResponse(TRUE, FALSE, FALSE, FALSE, <<>>),
     GeoResponse(FALSE, FALSE, FALSE, FALSE, <<>>),
     GeoResponse(FALSE, TRUE, TRUE, FALSE, <<>>),
     GeoResponse(FALSE, TRUE, FALSE, FALSE, <<>>),
     GeoResponse(FALSE, TRUE, FALSE, TRUE, <<Field(lCounties, <<cdName1>>)>>),
     GeoResponse(FALSE, TRUE, FALSE, TRUE, <<Field(lCongress, <<>>)>>)}
    \cup {GeoResponse(FALSE, TRUE, FALSE, TRUE,
                      <<Field(lCounties, <<cdNoState>>), Field(lCongress, a)>>) :
          a \in CdArrays}

\* req.query.zip
Zips == {<<"9", "0", "2", "1", "0">>, <<" ", "8", "2", "0", "0", "1", " ">>, <<"9", "0", "2", "1">>, <<"9", "0", "2", "1", "a">>, <<>>}

\* ------------------------------------------------------------------------
\* State
\* ------------------------------------------------------------------------

VARIABLES
    file,       \* content of LEG_FILE on disk
    today,      \* the clock read by new Date()
    INDEX,      \* the shared index: key -> entry
    installed,  \* history: roster and instant of the last loadIndex that returned
    reload,     \* the last response of /admin/reload
    req         \* the /api/rep requests; suspendedOver is history: the status
                \* of the last /admin/reload that ran while the request was
                \* suspended at a fetch

vars == <<file, today, INDEX, installed, reload, req>>

\* readFileSync, yaml.load or the loop over docs throws
Throws(f) ==
    \/ f.k # "docs"
    \/ \E i \in 1..Len(f.docs) : f.docs[i].isNull

\* the persons loadIndex has gone through when it stops
Processed(docs) ==
    IF \E i \in 1..Len(docs) : docs[i].isNull
    THEN SubSeq(docs, 1, (CHOOSE i \in 1..Len(docs) :
                              docs[i].isNull /\ \A j \in 1..(i - 1) : ~docs[j].isNull) - 1)
    ELSE docs

\* a variant of loadIndex that writes into INDEX while it builds
IndexWrittenInPlace(f, now, old) ==
    IF f.k # "docs" THEN old ELSE OutIndex(Processed(f.docs), now)

\* a variant of loadIndex that empties INDEX before it builds
IndexClearedFirst(f, now, old) ==
    IF Throws(f) THEN <<>> ELSE OutIndex(f.docs, now)

\* lines 34-80: INDEX after a call of loadIndex; the assignment of line 78
\* is reached only when nothing before it threw
IndexAfterLoad(f, now, old) ==
    IF Throws(f) THEN old ELSE OutIndex(f.docs, now)

NoZipResponse == ZipResponse(FALSE, FALSE, FALSE, FALSE, FALSE)

\* what a request keeps of the Census response: how it ended, and whether
\* the geographies and a non-empty district collection were in it
GeoSummary(b) ==
    [rejected |-> b.rejected, ok |-> b.ok, badJson |-> b.badJson,
     hasGeogs |-> b.hasGeogs,
     hasCd |-> b.hasGeogs /\ CdArray(b.geogs) # <<>>]

NoGeoResponse == GeoSummary(GeoResponse(FALSE, FALSE, FALSE, FALSE, <<>>))

NoReload == [status |-> 0, entries |-> 0]

IdleReq ==
    [pc |-> "idle", callsA |-> 0, callsB |-> 0, responses |-> 0, status |-> 0,
     gotA |-> FALSE, zipResp |-> NoZipResponse,
     gotB |-> FALSE, geoResp |-> NoGeoResponse,
     extracted |-> FALSE, readIndex |-> FALSE,
     cdArray |-> <<>>, districts |-> <<>>, representatives |-> <<>>,
     suspendedOver |-> 0]

\* line 82: the server runs only if the first loadIndex returned
Startup(files) ==
    /\ file \in {f \in files : ~Throws(f)}
    /\ today = 1
    /\ INDEX = IndexAfterLoad(file, today, <<>>)
    /\ installed = [docs |-> file.docs, at |-> today]
    /\ reload = NoReload
    /\ req = [r \in ReqIds |-> IdleReq]

Init == Startup(SysFiles)

InitBuild == Startup(BuildFiles)

\* ------------------------------------------------------------------------
\* Actions
\* ------------------------------------------------------------------------

\* time passes
Tick ==
    /\ today < MaxTime
    /\ today' = today + 1
    /\ UNCHANGED <<file, INDEX, installed, reload, req>>

\* the roster file is replaced on disk
WriteFile ==
    /\ \E f \in SysFiles \ {file} : file' = f
    /\ UNCHANGED <<today, INDEX, installed, reload, req>>

\* lines 364-367: /admin/reload
Reload ==
    /\ INDEX' = IndexAfterLoad(file, today, INDEX)
    /\ installed' = IF Throws(file) THEN installed
                    ELSE [docs |-> file.docs, at |-> today]
    /\ reload' = IF Throws(file) THEN [status |-> 500, entries |-> 0]
                 ELSE [status |-> 200, entries |-> Cardinality(DOMAIN INDEX')]
    /\ req' = [r \in ReqIds |->
                   IF req[r].pc \in {"awaitA", "awaitB"}
                   THEN [req[r] EXCEPT !.suspendedOver = reload'.status]
                   ELSE req[r]]
    /\ UNCHANGED <<file, today>>

\* res.status(..).json(..): the request ends with this response
Respond(q, status) ==
    [q EXCEPT !.pc = "done", !.responses = @ + 1, !.status = status]

\* lines 257-264: validate the zip, then call the ZIP service
Start(r) ==
    /\ req[r].pc = "idle"
    /\ \E zip \in Zips :
           req' = [req EXCEPT ![r] =
                       IF ~ZipTest(Trim(zip))
                       THEN Respond(@, 400)
                       ELSE [@ EXCEPT !.pc = "awaitA", !.callsA = @ + 1]]
    /\ UNCHANGED <<file, today, INDEX, installed, reload>>

\* a variant that goes on whatever the ZIP service answered
ZipStatusIgnored(a) == 0

\* lines 264-272: the status the request ends with after the ZIP service
\* answered, 0 when it goes on
ZipStatus(a) ==
    IF a.rejected THEN 500
    ELSE IF ~a.ok THEN 502
    ELSE IF a.badJson THEN 500
    ELSE IF ~a.hasPlace \/ ~a.hasLatLon THEN 502
    ELSE 0

\* lines 264-280: the ZIP service answered; on success call the Census service
ZipResponded(r) ==
    /\ req[r].pc = "awaitA"
    /\ \E a \in ZipResponses :
           req' = [req EXCEPT ![r] =
                       IF ZipStatus(a) # 0
                       THEN Respond([@ EXCEPT !.gotA = TRUE, !.zipResp = a],
                                    ZipStatus(a))
                       ELSE [@ EXCEPT !.gotA = TRUE, !.zipResp = a,
                                      !.pc = "awaitB", !.callsB = @ + 1]]
    /\ UNCHANGED <<file, today, INDEX, installed, reload>>

\* lines 280-299: the status the request ends with after the Census service
\* answered, 0 when it goes on to the extraction
GeoStatus(b) ==
    IF b.rejected THEN 500
    ELSE IF ~b.ok THEN 502
    ELSE IF b.badJson THEN 500
    ELSE IF ~b.hasGeogs THEN 404
    ELSE IF CdArray(b.geogs) = <<>> THEN 404
    ELSE 0

\* lines 280-355: the Census service answered; extract the keys and look
\* each one up in INDEX
GeoResponded(r) ==
    /\ req[r].pc = "awaitB"
    /\ \E b \in GeoResponses :
           LET got == [req[r] EXCEPT !.gotB = TRUE, !.geoResp = GeoSummary(b)]
               keys == FoundKeys(CdArray(b.geogs), <<>>)
           IN  req' = [req EXCEPT ![r] =
                           IF GeoStatus(b) # 0 THEN Respond(got, GeoStatus(b))
                           ELSE IF keys = <<>>
                           THEN Respond([got EXCEPT !.extracted = TRUE,
                                                    !.cdArray = CdArray(b.geogs)],
                                        404)
                           ELSE Respond([got EXCEPT
                                            !.extracted = TRUE,
                                            !.cdArray = CdArray(b.geogs),
                                            !.readIndex = TRUE,
                                            !.districts = keys,
                                            !.representatives =
                                                Representatives(keys, INDEX)],
                                        200)]
    /\ UNCHANGED <<file, today, INDEX, installed, reload>>

\* the running server.  The clock stands still here: what the handlers do
\* between two builds does not depend on it; SpecBuild lets it run
Next ==
    \/ WriteFile
    \/ Reload
    \/ \E r \in ReqIds : Start(r)
    \/ \E r \in ReqIds : ZipResponded(r)
    \/ \E r \in ReqIds : GeoResponded(r)

Spec == Init /\ [][Next]_vars

\* the index builder alone: rebuilds of an unchanged roster as time passes
NextBuild ==
    \/ Tick
    \/ Reload

SpecBuild == InitBuild /\ [][NextBuild]_vars

\* ------------------------------------------------------------------------
\* Properties
\* ------------------------------------------------------------------------

\* the complete index of the last loadIndex that returned
InstalledIndex == OutIndex(installed.docs, installed.at)

\* the candidates of that build, in roster order
InstalledCandidates == Candidates(installed.docs, installed.at)

\* request r reads INDEX in this step
ReadsIndex(r) == ~req[r].readIndex /\ req'[r].readIndex

\* a term is current at an instant: its start is absent or not later, and
\* its end is absent or not earlier
CurrentAt(t, now) ==
    /\ t.start.k = "absent" \/ (t.start.k = "date" /\ t.start.ms <= now)
    /\ t.end.k = "absent" \/ (t.end.k = "date" /\ t.end.ms >= now)

\* a term whose dates parse and whose state is there
WellFormed(t) ==
    /\ t.start.k # "invalid"
    /\ t.end.k # "invalid"
    /\ t.state.k = "str"

\* C1: whatever the interleaving of requests and reloads, a request that
\* reads INDEX resolves its keys against the complete index of the last
\* loadIndex that returned, never against part of a build.
C1_ReadsSeeCompleteIndex ==
    [][\A r \in ReqIds :
           ReadsIndex(r) =>
               req'[r].representatives =
                   Representatives(req'[r].districts, InstalledIndex)]_vars

\* a request that was suspended while a reload installed an index, and then
\* found a representative
C1_Witness ==
    \E r \in ReqIds :
        /\ req[r].readIndex
        /\ req[r].suspendedOver = 200
        /\ \E i \in 1..Len(req[r].representatives) :
               ~req[r].representatives[i].missing

\* C2: a key with exactly one current term among its candidates is indexed
\* to that term and its legislator, whatever the other candidates are.
C2_SingleCurrentTermSelected ==
    \A n \in 1..Len(InstalledCandidates) :
        LET key == InstalledCandidates[n].key
            arr == KeyCandidates(InstalledCandidates, key)
            cur == {i \in 1..Len(arr) : CurrentAt(arr[i].term, installed.at)}
        IN  Cardinality(cur) = 1 =>
                /\ key \in DOMAIN INDEX
                /\ \A i \in cur :
                       /\ INDEX[key].raw_term = arr[i].term
                       /\ INDEX[key].raw_person = arr[i].person
                       /\ INDEX[key].name = normalizeName(arr[i].person)

\* a key whose only current term comes after other candidates, one of them
\* with a later start, among at least two that are not current
C2_Witness ==
    \E key \in DOMAIN INDEX :
        LET arr == KeyCandidates(InstalledCandidates, key)
            cur == {i \in 1..Len(arr) : CurrentAt(arr[i].term, installed.at)}
        IN  /\ Cardinality(cur) = 1
            /\ Len(arr) >= 3
            /\ \A i \in cur :
                   /\ i > 1
                   /\ \E j \in 1..Len(arr) :
                          arr[j].start.n > arr[i].start.n /\ ~arr[j].start.nan

\* start instant of a well-formed term, an absent start counting as 0
StartInstant(t) == IF t.start.k = "date" THEN t.start.ms ELSE 0

\* C3: a key with no current candidate and at least two historical ones is
\* indexed to the candidate with the greatest start instant, the first such
\* in roster order.  The candidates are the well-formed terms of the key.
C3_GreatestStartSelected ==
    \A key \in DOMAIN INDEX :
        LET arr == SelectSeq(KeyCandidates(InstalledCandidates, key),
                             LAMBDA c : WellFormed(c.term))
        IN  (/\ Len(arr) >= 2
             /\ \A i \in 1..Len(arr) : ~CurrentAt(arr[i].term, installed.at))
            => \E i \in 1..Len(arr) :
                   /\ INDEX[key].raw_term = arr[i].term
                   /\ INDEX[key].raw_person = arr[i].person
                   /\ \A j \in 1..Len(arr) :
                          StartInstant(arr[j].term) <= StartInstant(arr[i].term)
                   /\ \A j \in 1..(i - 1) :
                          StartInstant(arr[j].term) < StartInstant(arr[i].term)

\* a person without the malformed 'rep' terms
WithoutMalformed(person) ==
    [person EXCEPT !.terms =
        SelectSeq(person.terms, LAMBDA t : t.type # "rep" \/ WellFormed(t))]

\* C4: a malformed term is skipped: the index is, key by key, the index of
\* the roster without its malformed terms.
C4_MalformedTermsSkipped ==
    LET clean == OutIndex([i \in 1..Len(installed.docs) |->
                               WithoutMalformed(installed.docs[i])],
                          installed.at)
    IN  /\ DOMAIN INDEX = DOMAIN clean
        /\ \A key \in DOMAIN INDEX :
               /\ INDEX[key].raw_term = clean[key].raw_term
               /\ INDEX[key].name = clean[key].name
               /\ INDEX[key].bioguide = clean[key].bioguide

\* state + "-" + d, d the decimal string of a positive integer
CanonicalKey(k) ==
    LET parts == SplitDash(k, 1, <<>>)
    IN  /\ Len(parts) = 2
        /\ parts[1] # <<>>
        /\ parts[2] # <<>>
        /\ \A i \in 1..Len(parts[2]) : IsDigit(parts[2][i])
        /\ parts[2][1] # "0"

\* a raw district that is missing, zero, empty or an at-large text
AtLargeRaw(raw) ==
    \/ raw.k = "undef"
    \/ raw.k = "num" /\ raw.n = 0
    \/ raw.k = "str" /\ (raw.s = <<>> \/ raw.s = <<"0">> \/ AtLargeTest(raw.s))

\* C5: every key of INDEX and every key a request extracted is canonical,
\* and an at-large raw district of the roster gives district "1".
C5_KeysCanonical ==
    /\ \A k \in DOMAIN INDEX : CanonicalKey(k)
    /\ \A r \in ReqIds : \A i \in 1..Len(req[r].districts) :
           CanonicalKey(req[r].districts[i])
    /\ \A n \in 1..Len(InstalledCandidates) :
           AtLargeRaw(InstalledCandidates[n].term.district) =>
               NormalizeDistrict(InstalledCandidates[n].term.district) = <<"1">>

\* C6: the resolution returns one element per distinct key, without
\* duplicates, each with the state and district of its key, populated when
\* INDEX has the key and a placeholder with missing: true when it has not.
C6_OneResultPerKey ==
    [][\A r \in ReqIds :
           ReadsIndex(r) =>
               LET keys == req'[r].districts
                   reps == req'[r].representatives
               IN  /\ Len(reps) = Len(keys)
                   /\ \A i, j \in 1..Len(keys) : keys[i] = keys[j] => i = j
                   /\ \A i \in 1..Len(keys) :
                          /\ reps[i].state.k = "str"
                          /\ reps[i].district.k = "str"
                          /\ reps[i].state.s \o <<"-">> \o reps[i].district.s = keys[i]
                          /\ reps[i].missing <=> keys[i] \notin DOMAIN INDEX
                          /\ ~reps[i].missing => reps[i].name = INDEX[keys[i]].name]_vars

\* the ZIP service returned success with a latitude and a longitude
ZipOk(a) == ~a.rejected /\ a.ok /\ ~a.badJson /\ a.hasPlace /\ a.hasLatLon

\* the Census service returned success with geographies and a non-empty
\* congressional-district collection
GeoOk(g) == ~g.rejected /\ g.ok /\ ~g.badJson /\ g.hasGeogs /\ g.hasCd

\* C7: each collaborator is called at most once, the Census service only
\* after the ZIP service succeeded; a failure of either ends the request
\* with one error response, without extraction, read of INDEX or retry.
C7_StopOnCollaboratorFailure ==
    \A r \in ReqIds :
        LET q == req[r]
        IN  /\ q.callsA <= 1
            /\ q.callsB <= 1
            /\ q.responses <= 1
            /\ q.pc = "done" <=> q.responses = 1
            /\ q.callsB = 1 => q.callsA = 1 /\ q.gotA /\ ZipOk(q.zipResp)
            /\ q.gotB => q.callsB = 1
            /\ (q.gotA /\ ~ZipOk(q.zipResp)) =>
                   /\ q.pc = "done"
                   /\ q.status \in {500, 502}
                   /\ q.callsB = 0
                   /\ ~q.extracted /\ ~q.readIndex
            /\ (q.gotB /\ ~GeoOk(q.geoResp)) =>
                   /\ q.pc = "done"
                   /\ q.status \in {404, 500, 502}
                   /\ ~q.extracted /\ ~q.readIndex

\* a request that ended on a Census response without geographies
C7_Witness ==
    \E r \in ReqIds :
        /\ req[r].pc = "done"
        /\ req[r].callsA = 1 /\ req[r].callsB = 1
        /\ req[r].gotB /\ req[r].geoResp.ok /\ ~req[r].geoResp.hasGeogs
        /\ req[r].status = 404

\* C8 as stated: a rebuild from the unchanged roster leaves INDEX equal.
C8_RebuildEqual ==
    [][(file' = file /\ installed'.docs = installed.docs) => INDEX' = INDEX]_vars

\* the 'rep' terms of a roster
RECURSIVE RepTerms(_)
RepTerms(docs) ==
    IF docs = <<>> THEN {}
    ELSE {Head(docs).terms[i] : i \in {j \in 1..Len(Head(docs).terms) :
                                          Head(docs).terms[j].type = "rep"}}
         \cup RepTerms(Tail(docs))

\* C8 amended: a rebuild from the unchanged roster keeps the key set, and
\* keeps every entry when no term is current at one of the two build
\* instants and not at the other.
C8_RebuildEqualSameCurrency ==
    [][(file' = file /\ installed'.docs = installed.docs) =>
           /\ DOMAIN INDEX' = DOMAIN INDEX
           /\ (\A t \in RepTerms(installed.docs) :
                   CurrentAt(t, installed.at) <=> CurrentAt(t, installed'.at))
              => INDEX' = INDEX]_vars

\* an index rebuilt at a later instant from the same roster, with a key
\* that has several candidates
C8_Witness ==
    /\ reload.status = 200
    /\ installed.docs = file.docs
    /\ installed.at > 1
    /\ \A t \in RepTerms(installed.docs) :
           CurrentAt(t, 1) <=> CurrentAt(t, installed.at)
    /\ \E key \in DOMAIN INDEX : Len(KeyCandidates(InstalledCandidates, key)) >= 2

\* the district number by rule precedence: the first CDnnn field with a
\* value, else the first name-like field naming a district, else NAME
ClaimedDistrictNum(cd) ==
    LET cds == SelectSeq(cd, LAMBDA f : CDFieldTest(f.k) /\ Truthy(f.v))
        names == SelectSeq(cd, LAMBDA f :
                     /\ NameFieldTest(f.k)
                     /\ Truthy(f.v)
                     /\ DistrictTest(StringOf(f.v))
                     /\ MatchTrailingDigits(StringOf(f.v)) # <<>>)
        name == Get(cd, fNAME)
        d == IF cds # <<>> THEN ParseIntToString(StringOf(cds[1].v))
             ELSE IF names # <<>>
             THEN NatToString(DigitsValue(MatchTrailingDigits(StringOf(names[1].v))))
             ELSE IF Truthy(name) /\ MatchTrailingDigits(StringOf(name)) # <<>>
             THEN NatToString(DigitsValue(MatchTrailingDigits(StringOf(name))))
             ELSE <<"1">>
    IN  IF d = <<"0">> THEN <<"1">> ELSE d

\* C9: the district number of every district object is decided by rule
\* precedence, whatever the order of its fields.
C9_RulePrecedence ==
    \A r \in ReqIds :
        req[r].extracted =>
            \A i \in 1..Len(req[r].cdArray) :
                LET cd == req[r].cdArray[i]
                IN  StateOf(cd) # <<>> =>
                        \E n \in 1..Len(req[r].districts) :
                            req[r].districts[n] =
                                StateOf(cd) \o <<"-">> \o ClaimedDistrictNum(cd)

\* C10: a reload whose loadIndex throws leaves INDEX as it was and answers
\* with an error; a request suspended over it resolves against the index
\* installed before.
C10_FailedReloadKeepsIndex ==
    [][/\ (Reload /\ Throws(file)) =>
              /\ INDEX' = INDEX
              /\ installed' = installed
              /\ reload'.status = 500
       /\ \A r \in ReqIds :
              (ReadsIndex(r) /\ req'[r].suspendedOver = 500) =>
                  /\ req'[r].status = 200
                  /\ req'[r].representatives =
                         Representatives(req'[r].districts, INDEX)
                  /\ INDEX = InstalledIndex]_vars

\* a request that was suspended over a failed reload and then found a
\* representative in the index installed before
C10_Witness ==
    \E r \in ReqIds :
        /\ req[r].readIndex
        /\ req[r].suspendedOver = 500
        /\ reload.status = 500
        /\ \E i \in 1..Len(req[r].representatives) :
               ~req[r].representatives[i].missing

====
